---- MODULE Spec2Model ----
(***************************************************************************)
(* Model of the matching orchestrator of enhanced_incentive_matching.py:   *)
(* EnhancedMatchingPipeline.find_matching_companies with its expansion     *)
(* loop, LocationService (memory cache, database cache, Google Maps call), *)
(* GeographicAnalyzer.analyze_eligibility, the scoring step and the two    *)
(* result writes of DatabaseManager.                                       *)
(*                                                                         *)
(* Spec     one call of find_matching_companies, split at its external     *)
(*          calls (vector search, reranker, geocoding, the two GPT calls,  *)
(*          the two UPDATEs).                                              *)
(* SpecGeo  analyze_eligibility alone, as a function of an arbitrary       *)
(*          candidate list and an arbitrary GPT answer.                    *)
(* SpecFit  SpecGeo followed by the geographic fit of every candidate.     *)
(* SpecScore  CompanyScorer.score_companies and its score components.      *)
(* SpecStore  the two result writes on a table of several incentives.      *)
(* SpecIndex  scripts/build_company_incentive_index.py: fetch, build, save.*)
(* SpecBatch  the loops of scripts/batch_process_all_incentives.py and     *)
(*          scripts/batch_process_with_scoring.py around the pipeline.     *)
(* SpecRerun  SpecBatch with batch_process_with_scoring.py started again.  *)
(***************************************************************************)
EXTENDS Integers, Sequences, FiniteSets, TLC

VARIABLES
    world,                    \* the environment: company data, geocoder, reranker scores
    max_candidates,           \* argument of find_matching_companies
    reranker,                 \* self.reranker: TRUE = loaded, FALSE = None
    pc,                       \* position in find_matching_companies
    candidates_to_try,        \* local of find_matching_companies
    tried,                    \* pool sizes passed to search_companies_qdrant, in order
    vector_results,           \* local: ids returned by the vector search
    reranked_companies,       \* local: ids in reranked order
    companies_with_locations, \* local: list of company dicts with location fields
    memory_cache,             \* LocationService.memory_cache
    db_location,              \* companies.location_* columns
    api_calls,                \* requests.get calls made per company in this run
    submitted,                \* company_data sent to GPT in analyze_eligibility
    gpt_response,             \* the answer of the eligibility GPT call
    eligibility_results,      \* return value of analyze_eligibility
    eligible_companies,       \* local: list of eligible company dicts
    final_companies,          \* local: Unbound until assigned
    scored_companies_sorted,  \* local
    top_5_companies,          \* incentives.top_5_companies of the incentive
    top_5_companies_scored,   \* incentives.top_5_companies_scored of the incentive
    error,                    \* exception that ended the run, or "none"
    score_response,           \* the answer of the scoring GPT call
    score_components,         \* scoring_data of score_companies
    scorer_companies,         \* argument companies of score_companies
    scorer_incentive,         \* argument incentive of score_companies
    incentives,               \* table incentives: incentive_id -> row
    result,                   \* the MatchingResult being persisted
    persisted,                \* the results persisted so far, in order
    driver,                   \* which batch script runs
    include_skipped,          \* local of main: --retry-skipped was given
    batch_incentives,         \* the list of incentive ids the driver loops over
    retrying,                 \* process_batch is in its loop over skipped_queue
    position,                 \* index of the current incentive in the loop
    successful,               \* counter of the driver
    failed,                   \* counter of the driver
    skipped,                  \* counter of process_batch
    skipped_queue,            \* local of process_batch
    persistent_skipped,       \* local of process_batch
    skipped_file,             \* 'skipped_ids' of data/skipped_incentives.json
    outcome,                  \* how the latest processing of each incentive ended
    interrupted,              \* the KeyboardInterrupt delivered, or NoInterrupt
    company_incentives,       \* return value of build_reverse_index
    eligible_incentives       \* companies.eligible_incentives: company_id -> JSON

\* the variables of find_matching_companies other than pc
pipeline_vars == <<world, max_candidates, reranker, candidates_to_try, tried,
                   vector_results, reranked_companies, companies_with_locations,
                   memory_cache, db_location, api_calls, submitted, gpt_response,
                   eligibility_results, eligible_companies, final_companies,
                   scored_companies_sorted, top_5_companies,
                   top_5_companies_scored, error>>

\* the variables of CompanyScorer.score_companies
scorer_vars ==
    <<score_response, score_components, scorer_companies, scorer_incentive>>

\* the incentives table seen as several rows
store_vars == <<incentives, result, persisted>>

\* the variables of the batch drivers
batch_vars == <<driver, include_skipped, batch_incentives, retrying, position, successful, failed,
                skipped, skipped_queue, persistent_skipped, skipped_file,
                outcome, interrupted>>

\* the variables of build_company_incentive_index.py
index_vars == <<company_incentives, eligible_incentives>>

\* the variables of the scripts around the pipeline
script_vars == <<store_vars, batch_vars, index_vars>>

vars == <<pc, pipeline_vars, scorer_vars, script_vars>>

(***************************************************************************)
(* Program constants                                                       *)
(***************************************************************************)
InitialCandidates == 10

CandidateStep == 10

ThresholdCount == 5

DefaultMaxCandidates == 50

\* company_incentives[company_id][:5]
IndexLimit == 5

(***************************************************************************)
(* Bounds                                                                  *)
(***************************************************************************)
\* number of points in the Qdrant collection "companies"
NumCompanies == 22

\* number of candidates in the lists given to analyze_eligibility in SpecGeo
MaxCands == 2

\* number of rows of the incentives table in SpecStore and SpecBatch
NumIncentives == 3

\* number of results persisted in SpecStore
MaxWrites == 3

\* number of rows of the incentives table in SpecIndex
NumScored == 6

\* number of companies given to score_companies in SpecScore
MaxScored == 3

Companies == 1..NumCompanies

\* values of max_candidates: below the initial pool, equal to it, between two
\* steps, the values the callers use, and the default
MaxCandidatesSet == {5, 10, 15, 20, 30, DefaultMaxCandidates}

(***************************************************************************)
(* Generic helpers                                                         *)
(***************************************************************************)
Range(s) == {s[i] : i \in DOMAIN s}

Min(a, b) == IF a <= b THEN a ELSE b

\* Python s[:n]
Take(s, n) == SubSeq(s, 1, Min(n, Len(s)))

\* insertion of x into a list sorted by key descending, after the elements of
\* equal key (Python's sort is stable, also with reverse=True)
RECURSIVE InsertDesc(_, _, _)
InsertDesc(x, s, key) ==
    IF s = <<>> THEN <<x>>
    ELSE IF key[Head(s)] >= key[x] THEN <<Head(s)>> \o InsertDesc(x, Tail(s), key)
    ELSE <<x>> \o s

\* Python sorted(s, key=lambda x: key[x], reverse=True)
RECURSIVE SortedDesc(_, _)
SortedDesc(s, key) ==
    IF s = <<>> THEN <<>>
    ELSE LET n == Len(s)
         IN  InsertDesc(s[n], SortedDesc(SubSeq(s, 1, n - 1), key), key)

Digit(d) ==
    CASE d = 0 -> "0" [] d = 1 -> "1" [] d = 2 -> "2" [] d = 3 -> "3"
      [] d = 4 -> "4" [] d = 5 -> "5" [] d = 6 -> "6" [] d = 7 -> "7"
      [] d = 8 -> "8" [] d = 9 -> "9"

\* Python str(company_id) for a non-negative int
RECURSIVE Str(_)
Str(n) == IF n < 10 THEN Digit(n) ELSE Str(n \div 10) \o Digit(n % 10)

(***************************************************************************)
(* The environment.  A world fixes what the external services answer for   *)
(* each company: the Google Maps response, the reranker score, and whether *)
(* the company has a row in the companies table.                           *)
(***************************************************************************)
WorldIds == {"uniform", "mixed", "sparse", "barren"}

\* A Google Maps text-search outcome: exc is the exception requests raises
\* ("none" when the call returns), status is data['status'] ("MISSING" when
\* the key is absent), place is data['results'][0] ("absent" when results is
\* empty).
Raw(exc, status, place) == [exc |-> exc, status |-> status, place |-> place]

GeoRaw(w, c) ==
    CASE w = "uniform" ->
            IF c % 5 = 0 THEN Raw("none", "OK", "no_formatted_address")
            ELSE Raw("none", "OK", "full")
      [] w = "mixed" ->
            CASE c % 8 = 0 -> Raw("none", "ZERO_RESULTS", "absent")
              [] c % 8 = 3 -> Raw("none", "OVER_QUERY_LIMIT", "absent")
              [] c % 8 = 4 -> Raw("none", "OK", "no_geometry")
              [] c % 8 = 5 -> Raw("RequestException", "MISSING", "absent")
              [] c % 8 = 7 -> Raw("none", "REQUEST_DENIED", "absent")
              [] OTHER     -> Raw("none", "OK", "full")
      [] w = "sparse" ->
            CASE c % 4 = 0 -> Raw("none", "OK", "full")
              [] c % 4 = 1 -> Raw("none", "INVALID_REQUEST", "absent")
              [] c % 4 = 2 -> Raw("none", "OK", "absent")
              [] OTHER     -> Raw("none", "MISSING", "absent")
      [] OTHER -> Raw("none", "ZERO_RESULTS", "absent")

\* reranker.compute_score(pairs, normalize=True), as an integer percentage
RerankScore(w, c) ==
    CASE w = "uniform" -> c
      [] w = "mixed"   -> (c * 7) % 5
      [] w = "sparse"  -> 100 - c
      [] OTHER         -> 0

\* whether SELECT ... FROM companies WHERE company_id = ANY(ids) has a row for c
InPostgres(w, c) == ~(w = "mixed" /\ c = 2)

(***************************************************************************)
(* CompanyLocation, DatabaseManager location columns, LocationService      *)
(***************************************************************************)
\* dataclass CompanyLocation; latitude / formatted_address record whether the
\* field holds a value
CompanyLocation(status, lat, addr) ==
    [api_status |-> status, latitude |-> lat, formatted_address |-> addr]

\* absence of a key in memory_cache, and the None of get_company_location
NotCached == CompanyLocation("NOT_CACHED", FALSE, FALSE)

\* a row of companies restricted to its location columns
LocationRow(lat, addr, status) ==
    [location_lat |-> lat, location_address |-> addr, location_api_status |-> status]

EmptyRow == LocationRow(FALSE, FALSE, "NULL")

\* DatabaseManager.get_company_location
DbGetCompanyLocation(row) ==
    IF row.location_api_status # "NULL" \/ row.location_lat
    THEN CompanyLocation(
             IF row.location_lat
             THEN (IF row.location_api_status # "NULL"
                   THEN row.location_api_status ELSE "success")
             ELSE "unknown",
             row.location_lat, row.location_address)
    ELSE NotCached

\* DatabaseManager.save_company_location: the UPDATE of the location columns
SaveCompanyLocation(location) ==
    LocationRow(location.latitude, location.formatted_address, location.api_status)

\* LocationService._call_google_maps_api
CallGoogleMapsApi(raw) ==
    IF raw.exc = "RequestException" THEN CompanyLocation("api_error", FALSE, FALSE)
    ELSE IF raw.status = "MISSING" THEN CompanyLocation("api_error", FALSE, FALSE)
    ELSE IF raw.status = "OVER_QUERY_LIMIT" THEN CompanyLocation("rate_limited", FALSE, FALSE)
    ELSE IF raw.status = "REQUEST_DENIED" THEN CompanyLocation("api_error", FALSE, FALSE)
    ELSE IF raw.status = "OK" /\ raw.place # "absent"
         THEN IF raw.place = "no_geometry"
              THEN CompanyLocation("incomplete_data", FALSE, TRUE)
              ELSE CompanyLocation("success", TRUE, TRUE)
    ELSE CompanyLocation("not_found", FALSE, FALSE)

\* get_company_location that caches a looked-up location only on success
GetCompanyLocation_SuccessOnly(company_id, mem, db, raw) ==
    IF mem[company_id] # NotCached
    THEN [location |-> mem[company_id], mem |-> mem, db |-> db, called |-> FALSE]
    ELSE LET cached_location == DbGetCompanyLocation(db[company_id])
         IN  IF cached_location # NotCached
             THEN LET marked == [cached_location EXCEPT !.api_status = "cached"]
                  IN  [location |-> marked,
                       mem |-> [mem EXCEPT ![company_id] = marked],
                       db |-> db, called |-> FALSE]
             ELSE LET location == CallGoogleMapsApi(raw)
                      keep     == location.api_status = "success"
                  IN  [location |-> location,
                       mem |-> IF keep THEN [mem EXCEPT ![company_id] = location]
                               ELSE mem,
                       db |-> IF keep
                              THEN [db EXCEPT ![company_id] = SaveCompanyLocation(location)]
                              ELSE db,
                       called |-> TRUE]

\* LocationService.get_company_location: the location returned, the two cache
\* tiers after the call, and whether requests.get was called
GetCompanyLocation(company_id, mem, db, raw) ==
    IF mem[company_id] # NotCached
    THEN [location |-> mem[company_id], mem |-> mem, db |-> db, called |-> FALSE]
    ELSE LET cached_location == DbGetCompanyLocation(db[company_id])
         IN  IF cached_location # NotCached
             THEN LET marked == [cached_location EXCEPT !.api_status = "cached"]
                  IN  [location |-> marked,
                       mem |-> [mem EXCEPT ![company_id] = marked],
                       db |-> db, called |-> FALSE]
             ELSE LET location == CallGoogleMapsApi(raw)
                  IN  [location |-> location,
                       mem |-> [mem EXCEPT ![company_id] = location],
                       db |-> [db EXCEPT ![company_id] = SaveCompanyLocation(location)],
                       called |-> TRUE]

\* the company dict after company_with_location.update({...})
CompanyDict(id, location) ==
    [id |-> id,
     location_api_status |-> location.api_status,
     formatted_address |-> location.formatted_address]

\* EnhancedMatchingPipeline._enrich_with_locations: one get_company_location
\* per company, in list order
RECURSIVE EnrichWithLocations(_, _, _, _, _)
EnrichWithLocations(companies, mem, db, calls, w) ==
    IF companies = <<>>
    THEN [list |-> <<>>, mem |-> mem, db |-> db, calls |-> calls]
    ELSE LET id   == Head(companies)
             r    == GetCompanyLocation(id, mem, db, GeoRaw(w, id))
             rest == EnrichWithLocations(Tail(companies), r.mem, r.db,
                         IF r.called THEN [calls EXCEPT ![id] = @ + 1] ELSE calls, w)
         IN  [rest EXCEPT !.list = <<CompanyDict(id, r.location)>> \o rest.list]

(***************************************************************************)
(* GeographicAnalyzer.analyze_eligibility                                  *)
(*                                                                         *)
(* The GPT answer is a record: exc says whether the API call raised, text  *)
(* is message.content as a list of tokens ("{", "}", "BODY" for the        *)
(* comma-separated members of an object, "TXT" for other words, "WS" for   *)
(* whitespace), and map holds the members that BODY stands for: JSON key   *)
(* -> kind of JSON value.                                                  *)
(***************************************************************************)
GptAnswer(exc, text, map) == [exc |-> exc, text |-> text, map |-> map]

EmptyMap == [k \in {} |-> "null"]

\* Python str.strip()
RECURSIVE LStrip(_)
LStrip(t) == IF t # <<>> /\ Head(t) = "WS" THEN LStrip(Tail(t)) ELSE t

RECURSIVE RStrip(_)
RStrip(t) ==
    IF t # <<>> /\ t[Len(t)] = "WS" THEN RStrip(SubSeq(t, 1, Len(t) - 1)) ELSE t

Strip(t) == RStrip(LStrip(t))

\* Python str.find(tok): 0-based index of the first occurrence, -1 if none
Find(t, tok) ==
    IF \E i \in DOMAIN t : t[i] = tok
    THEN (CHOOSE i \in DOMAIN t : t[i] = tok /\ \A j \in 1..(i - 1) : t[j] # tok) - 1
    ELSE -1

\* Python str.rfind(tok): 0-based index of the last occurrence, -1 if none
RFind(t, tok) ==
    IF \E i \in DOMAIN t : t[i] = tok
    THEN (CHOOSE i \in DOMAIN t : t[i] = tok /\ \A j \in (i + 1)..Len(t) : t[j] # tok) - 1
    ELSE -1

\* Python t[a:b] for 0 <= a < b <= len(t)
Slice(t, a, b) == SubSeq(t, a + 1, b)

\* json.loads succeeds on an object with well-formed members or on {}
JsonValid(json_text) == json_text \in {<<"{", "BODY", "}">>, <<"{", "}">>}

\* the dict json.loads returns
JsonLoads(json_text, map) == IF json_text = <<"{", "BODY", "}">> THEN map ELSE EmptyMap

\* Python bool(v) of a parsed JSON value
Truthy(v) == v \in {"true", "str", "number", "object"}

\* the filter with the address test only
ValidLocations_AddressOnly(companies) ==
    SelectSeq(companies, LAMBDA c : c.formatted_address)

\* companies_with_valid_locations
ValidLocations(companies) ==
    SelectSeq(companies,
              LAMBDA c : c.formatted_address /\ c.location_api_status = "success")

\* the lookup with True as the default for an absent key
GptResult_DefaultTrue(eligibility, company_id) ==
    IF Str(company_id) \in DOMAIN eligibility
    THEN Truthy(eligibility[Str(company_id)])
    ELSE TRUE

\* eligibility_results.get(str(company_id), False), then bool()
GptResult(eligibility, company_id) ==
    IF Str(company_id) \in DOMAIN eligibility
    THEN Truthy(eligibility[Str(company_id)])
    ELSE FALSE

\* {c['id']: False for c in companies_with_locations}
AllIneligible(companies) == [id \in {c.id : c \in Range(companies)} |-> FALSE]

\* the loop over companies_with_valid_locations instead of all candidates
FinalResults_ValidOnly(companies, eligibility) ==
    [id \in {c.id : c \in Range(ValidLocations(companies))} |->
        GptResult(eligibility, id)]

\* the loop that builds final_results; a later entry of the same id overwrites
\* an earlier one
FinalResults(companies, eligibility) ==
    [id \in {c.id : c \in Range(companies)} |->
        LET last    == CHOOSE i \in DOMAIN companies :
                           /\ companies[i].id = id
                           /\ \A j \in (i + 1)..Len(companies) : companies[j].id # id
            company == companies[last]
        IN  IF company.location_api_status # "success"
            THEN FALSE
            ELSE GptResult(eligibility, id)]

\* the try block: the parse of the answer and the result map, or the
\* conservative fallback of the except clause
ParseAndDecide(companies, answer) ==
    IF answer.exc THEN AllIneligible(companies)
    ELSE LET result_text == Strip(answer.text)
             json_start  == Find(result_text, "{")
             json_end    == RFind(result_text, "}") + 1
         IN  IF result_text = <<>> THEN AllIneligible(companies)
             ELSE IF json_start >= 0 /\ json_end > json_start
                  THEN LET json_text == Slice(result_text, json_start, json_end)
                       IN  IF JsonValid(json_text)
                           THEN FinalResults(companies, JsonLoads(json_text, answer.map))
                           ELSE AllIneligible(companies)
                  ELSE AllIneligible(companies)

\* analyze_eligibility: the ids of company_data (empty when GPT is not
\* called) and the returned map
AnalyzeEligibility(companies, answer) ==
    LET valid == ValidLocations(companies)
    IN  IF valid = <<>>
        THEN [company_data |-> <<>>, called |-> FALSE,
              results |-> AllIneligible(companies)]
        ELSE [company_data |-> [i \in DOMAIN valid |-> valid[i].id], called |-> TRUE,
              results |-> ParseAndDecide(companies, answer)]

(***************************************************************************)
(* CompanyScorer: the GPT call that combines the score components          *)
(***************************************************************************)
\* a JSON value of the scoring answer: a number (as a percentage) or not
Num(n) == [kind |-> "number", n |-> n]

NotNum == [kind |-> "str", n |-> 0]

\* CompanyScorer._compute_scores_with_llm: the dict int(k) -> float(v), or {}
\* when the call raises, no object is found, json.loads fails, or a float(v)
\* raises
ComputeScoresWithLlm(ids, answer) ==
    LET none == [id \in {} |-> 0]
    IN  IF answer.exc THEN none
        ELSE LET result_text == Strip(answer.text)
                 json_start  == Find(result_text, "{")
                 json_end    == RFind(result_text, "}") + 1
             IN  IF json_start >= 0 /\ json_end > json_start
                 THEN LET json_text == Slice(result_text, json_start, json_end)
                          scores    == JsonLoads(json_text, answer.map)
                      IN  IF ~JsonValid(json_text) THEN none
                          ELSE IF \E k \in DOMAIN scores :
                                      \/ k \notin {Str(c) : c \in Companies}
                                      \/ scores[k].kind # "number"
                               THEN none
                          ELSE [id \in {c \in ids : Str(c) \in DOMAIN scores} |->
                                    scores[Str(id)].n]
                 ELSE none

\* company['company_score'] = final_scores.get(company['id'], 0.0)
CompanyScore(final_scores, id) ==
    IF id \in DOMAIN final_scores THEN final_scores[id] ELSE 0

\* company.get('geo_eligible'): None when the key was never set
GetGeoEligible(company) ==
    IF "geo_eligible" \in DOMAIN company THEN company.geo_eligible ELSE FALSE

\* company['geo_eligible'] = True
MarkGeoEligible(company) ==
    [f \in DOMAIN company \cup {"geo_eligible"} |->
        IF f = "geo_eligible" THEN TRUE ELSE company[f]]

\* a geographic fit that is 0.0 for every company that is not eligible
CalculateGeographicFit_NoUnknown(company) ==
    IF GetGeoEligible(company) THEN 100 ELSE 0

\* CompanyScorer._calculate_geographic_fit, as a percentage
CalculateGeographicFit(company) ==
    IF GetGeoEligible(company) THEN 100
    ELSE IF company.location_api_status = "success" THEN 0
    ELSE 50

\* the scoring_data of score_companies, restricted to the company id and
\* the component g
ScoringData(companies) ==
    [i \in DOMAIN companies |->
        [company_id |-> companies[i].id, g |-> CalculateGeographicFit(companies[i])]]

\* a fraction num / den, kept exact
Ratio(num, den) == [num |-> num, den |-> den]

\* the min-max scaling without the tests for one score and for equal
\* scores
NormalizeScores_NoGuard(scores) ==
    LET min_score == CHOOSE m \in Range(scores) : \A x \in Range(scores) : m <= x
        max_score == CHOOSE m \in Range(scores) : \A x \in Range(scores) : m >= x
    IN  IF scores = <<>> THEN <<>>
        ELSE [i \in DOMAIN scores |->
                 Ratio(scores[i] - min_score, max_score - min_score)]

\* CompanyScorer._normalize_scores
NormalizeScores(scores) ==
    IF scores = <<>> \/ Len(scores) = 1
    THEN [i \in DOMAIN scores |-> Ratio(1, 1)]
    ELSE LET min_score == CHOOSE m \in Range(scores) : \A x \in Range(scores) : m <= x
             max_score == CHOOSE m \in Range(scores) : \A x \in Range(scores) : m >= x
         IN  IF max_score = min_score
             THEN [i \in DOMAIN scores |-> Ratio(1, 1)]
             ELSE [i \in DOMAIN scores |->
                      Ratio(scores[i] - min_score, max_score - min_score)]

\* stop_words of _calculate_cae_overlap that the model's vocabulary holds
StopWords == {"de"}

\* CompanyScorer._calculate_cae_overlap: the Jaccard similarity of the two
\* keyword sets; keywords are the lower-cased words of the texts
CalculateCaeOverlap(company, inc) ==
    LET incentive_keywords == inc.keywords \ StopWords
        company_keywords   == company.keywords \ StopWords
        intersection == Cardinality(incentive_keywords \cap company_keywords)
        union        == Cardinality(incentive_keywords \cup company_keywords)
    IN  IF incentive_keywords = {} \/ company_keywords = {} THEN Ratio(0, 1)
        ELSE IF union > 0 THEN Ratio(intersection, union) ELSE Ratio(0, 1)

\* CompanyScorer._calculate_org_capacity, as a percentage; company.name is
\* the set of the tested substrings that occur in the upper-cased name
CalculateOrgCapacity(company) ==
    IF "S.A." \in company.name \/ "SA " \in company.name THEN 100
    ELSE IF company.name \cap {"COOPERATIVA", "CENTRO SOCIAL"} # {} THEN 100
    ELSE IF "SGPS" \in company.name THEN 60
    ELSE IF "UNIPESSOAL" \in company.name THEN 40
    ELSE IF "LDA" \in company.name \/ "LTD" \in company.name THEN 70
    ELSE 50

\* CompanyScorer._determine_org_direction; inc.text is the set of the tested
\* keywords that occur in the lower-cased title, sector and eligible actions
DetermineOrgDirection(inc) ==
    IF inc.text \cap {"cooperativa", "social", "nonprofit", "ipss"} # {} THEN 0
    ELSE IF inc.text \cap {"pme", "pequena", "micro", "startup"} # {} THEN -1
    ELSE IF inc.text \cap {"grande empresa", "multinacional", "s.a."} # {} THEN 1
    ELSE IF "governo" \in inc.text THEN 1
    ELSE 0

\* 1 if company.get('website') and company['website'] != 'N/A' else 0
WebsitePresence(company) ==
    IF company.website \notin {"None", "", "N/A"} THEN 1 ELSE 0

\* the scoring_data of score_companies
ScoreComponents(list, inc, semantic_scores) ==
    LET s_scores == NormalizeScores(semantic_scores)
    IN  [i \in DOMAIN list |->
            [company_id |-> list[i].id,
             s |-> s_scores[i],
             m |-> CalculateCaeOverlap(list[i], inc),
             g |-> CalculateGeographicFit(list[i]),
             o |-> CalculateOrgCapacity(list[i]),
             org_direction |-> DetermineOrgDirection(inc),
             w |-> WebsitePresence(list[i])]]

\* the value of incentive while score_companies is not looked at
NoIncentive == [keywords |-> {}, text |-> {}]

(***************************************************************************)
(* The answers the model lets the two GPT calls give                       *)
(***************************************************************************)
\* the map {"<id>": value} with a key for each company of keys
KeyedMap(keys, value) ==
    [k \in {Str(c) : c \in keys} |-> value[CHOOSE c \in keys : Str(c) = k]]

\* answers without a usable object: empty, blank, prose only, braces in the
\* wrong order, an object that is not JSON, a truncated object, an object
\* followed by a stray brace
TextsWithoutJson ==
    { <<>>, <<"WS">>, <<"TXT">>, <<"}", "{">>, <<"{", "TXT", "}">>,
      <<"{", "BODY">>, <<"{", "BODY", "}", "TXT", "}">> }

\* answers that hold one object: bare, wrapped in prose, padded with blanks
TextsWithBody ==
    { <<"{", "BODY", "}">>, <<"TXT", "{", "BODY", "}", "TXT">>,
      <<"WS", "{", "BODY", "}", "WS">> }

\* eligibility maps of the pipeline: every company true, every company
\* false, the first 6 or the first 2 true, keys for the odd ids only,
\* strings instead of booleans, keys of the form "Company <id>"
EligibilityMaps ==
    { KeyedMap(Companies, [c \in Companies |-> "true"]),
      KeyedMap(Companies, [c \in Companies |-> "false"]),
      KeyedMap(Companies, [c \in Companies |-> IF c <= 6 THEN "true" ELSE "false"]),
      KeyedMap(Companies, [c \in Companies |-> IF c <= 2 THEN "true" ELSE "false"]),
      KeyedMap({c \in Companies : c % 2 = 1}, [c \in Companies |-> "true"]),
      KeyedMap(Companies, [c \in Companies |-> "str"]),
      [k \in {"Company " \o Str(c) : c \in Companies} |-> "true"] }

PipelineAnswers ==
    {GptAnswer(TRUE, <<>>, EmptyMap)}
    \cup {GptAnswer(FALSE, t, EmptyMap) : t \in {<<>>, <<"TXT">>, <<"{", "TXT", "}">>}}
    \cup {GptAnswer(FALSE, t, m) :
            t \in {<<"{", "BODY", "}">>, <<"TXT", "{", "BODY", "}", "TXT">>},
            m \in EligibilityMaps}

\* the value of gpt_response while no answer is held
NoAnswer == GptAnswer(FALSE, <<"NOT_CALLED">>, EmptyMap)

\* scoring maps for the finalized ids: the rerank order, the reverse order,
\* scores for the even ids only, a value that is not a number, keys of the
\* form "Company <id>"
ScoreMaps(ids, w) ==
    { KeyedMap(ids, [c \in Companies |-> Num(RerankScore(w, c))]),
      KeyedMap(ids, [c \in Companies |-> Num(100 - RerankScore(w, c))]),
      KeyedMap({c \in ids : c % 2 = 0}, [c \in Companies |-> Num(50 + c)]),
      KeyedMap(ids, [c \in Companies |-> IF c % 2 = 0 THEN NotNum ELSE Num(c)]),
      [k \in {"Company " \o Str(c) : c \in ids} |-> Num(50)] }

ScoreAnswers(ids, w) ==
    {GptAnswer(TRUE, <<>>, EmptyMap)}
    \cup {GptAnswer(FALSE, t, EmptyMap) : t \in {<<>>, <<"TXT">>, <<"{", "TXT", "}">>}}
    \cup {GptAnswer(FALSE, <<"TXT", "{", "BODY", "}">>, m) : m \in ScoreMaps(ids, w)}

(***************************************************************************)
(* Pure steps of find_matching_companies                                   *)
(***************************************************************************)
\* final_companies before its first assignment
Unbound == [bound |-> FALSE, list |-> <<>>]

Bound(list) == [bound |-> TRUE, list |-> list]

\* the value of the result columns before any write
Null == [written |-> FALSE, companies |-> <<>>,
         total_candidates_searched |-> 0, geographic_eligible_count |-> 0]

\* the condition of the while loop
LoopTest(candidates, maximum) == candidates <= maximum

\* candidates_to_try += 10, with a step of 5 instead
Expand_HalfStep(candidates) == candidates + 5

\* candidates_to_try += 10
Expand(candidates) == candidates + CandidateStep

\* search_companies_qdrant(top_k): the top_k nearest points of the
\* collection, or [] when the collection cannot be read
SearchCompaniesQdrant(top_k, available) ==
    IF available THEN [i \in 1..Min(top_k, NumCompanies) |-> i] ELSE <<>>

\* enrich_with_postgres and the loop that builds companies_for_reranking
CompaniesForReranking(results, w) ==
    SelectSeq(results, LAMBDA id : InPostgres(w, id))

\* rerank_companies with top_k = None
RerankCompanies(companies, loaded, w) ==
    IF ~loaded THEN companies
    ELSE SortedDesc(companies, [c \in Companies |-> RerankScore(w, c)])

\* [company for company in companies_with_locations
\*  if eligibility_results.get(company['id'], False)]
EligibleCompanies(companies, results) ==
    SelectSeq(companies, LAMBDA c : c.id \in DOMAIN results /\ results[c.id])

Ids(companies) == [i \in DOMAIN companies |-> companies[i].id]

\* the sort by rerank score without the [:5] slice
TopByRerank_NoSlice(eligible, w) ==
    LET key    == [c \in Companies |-> RerankScore(w, c)]
        order  == SortedDesc(Ids(eligible), key)
    IN  [i \in DOMAIN order |-> CHOOSE c \in Range(eligible) : c.id = order[i]]

\* sorted(eligible_companies, key=rerank_score, reverse=True)[:5]
TopByRerank(eligible, w) ==
    LET key    == [c \in Companies |-> RerankScore(w, c)]
        order  == SortedDesc(Ids(eligible), key)
        sorted == [i \in DOMAIN order |->
                     CHOOSE c \in Range(eligible) : c.id = order[i]]
    IN  Take(sorted, ThresholdCount)

\* a sort by company_score that puts companies of equal score in the
\* reverse of their semantic order
ScoredSorted_TiesReversed(final, final_scores) ==
    LET key   == [c \in Companies |-> CompanyScore(final_scores, c)]
        ids   == Ids(final)
        order == SortedDesc([i \in DOMAIN ids |-> ids[Len(ids) + 1 - i]], key)
    IN  [i \in DOMAIN order |-> [id |-> order[i], company_score |-> key[order[i]]]]

\* score_companies then sorted(scored_companies, key=company_score,
\* reverse=True): the list of (id, company_score) in that order
ScoredSorted(final, final_scores) ==
    LET key   == [c \in Companies |-> CompanyScore(final_scores, c)]
        order == SortedDesc(Ids(final), key)
    IN  [i \in DOMAIN order |-> [id |-> order[i], company_score |-> key[order[i]]]]

\* the JSON save_matching_results writes
MatchingJson(final, searched, w) ==
    [written |-> TRUE,
     companies |-> [i \in DOMAIN final |->
                      [id |-> final[i].id, rank |-> i,
                       semantic_score |-> RerankScore(w, final[i].id)]],
     total_candidates_searched |-> searched,
     geographic_eligible_count |-> Len(final)]

\* the JSON save_scored_results writes
ScoredJson(scored, w) ==
    [written |-> TRUE,
     companies |-> [i \in DOMAIN scored |->
                      [id |-> scored[i].id, rank |-> i,
                       company_score |-> scored[i].company_score,
                       semantic_score |-> RerankScore(w, scored[i].id)]],
     total_candidates_searched |-> 0,
     geographic_eligible_count |-> 0]

\* result = MatchingResult(...) of find_matching_companies, with the list
\* scored_companies_sorted that is persisted next to it
MatchingResult(incentive_id, companies, searched, scored) ==
    [incentive_id |-> incentive_id, companies |-> companies,
     total_candidates_searched |-> searched,
     scored_companies_sorted |-> scored]

\* the value of result while no result is being persisted
NoResult == MatchingResult(0, <<>>, 0, <<>>)

\* the value of interrupted while no KeyboardInterrupt was delivered
NoInterrupt == [incentive |-> 0, stage |-> "none"]

(***************************************************************************)
(* Spec: one call of find_matching_companies                               *)
(***************************************************************************)
\* how many companies an earlier process has already geocoded
PriorResolved == {0, 3, InitialCandidates}

\* the location columns an earlier process left for the first n companies
PriorRows(w, n) ==
    [c \in Companies |->
        IF c <= n /\ InPostgres(w, c)
        THEN SaveCompanyLocation(CallGoogleMapsApi(GeoRaw(w, c)))
        ELSE EmptyRow]

\* no scoring call has been made
ScorerIdle ==
    /\ score_response = NoAnswer
    /\ score_components = <<>>
    /\ scorer_companies = <<>>
    /\ scorer_incentive = NoIncentive

\* the table is not looked at as several rows
StoreIdle ==
    /\ incentives = <<>>
    /\ result = NoResult
    /\ persisted = <<>>

\* no batch driver runs
BatchIdle ==
    /\ driver = "none"
    /\ include_skipped = FALSE
    /\ batch_incentives = <<>>
    /\ retrying = FALSE
    /\ position = 0
    /\ successful = 0
    /\ failed = 0
    /\ skipped = 0
    /\ skipped_queue = <<>>
    /\ persistent_skipped = {}
    /\ skipped_file = {}
    /\ outcome = <<>>
    /\ interrupted = NoInterrupt

\* no index build runs
IndexIdle ==
    /\ company_incentives = <<>>
    /\ eligible_incentives = <<>>

ScriptsIdle ==
    /\ StoreIdle
    /\ BatchIdle
    /\ IndexIdle

NoLocals ==
    /\ reranked_companies' = <<>>
    /\ companies_with_locations' = <<>>
    /\ submitted' = <<>>
    /\ gpt_response' = NoAnswer
    /\ eligibility_results' = AllIneligible(<<>>)
    /\ eligible_companies' = <<>>

Init ==
    /\ world \in WorldIds
    /\ max_candidates \in MaxCandidatesSet
    /\ reranker \in BOOLEAN
    /\ \E n \in PriorResolved : db_location = PriorRows(world, n)
    /\ memory_cache = [c \in Companies |-> NotCached]
    /\ api_calls = [c \in Companies |-> 0]
    /\ pc = "start"
    /\ candidates_to_try = 0
    /\ tried = <<>>
    /\ vector_results = <<>>
    /\ reranked_companies = <<>>
    /\ companies_with_locations = <<>>
    /\ submitted = <<>>
    /\ gpt_response = NoAnswer
    /\ eligibility_results = AllIneligible(<<>>)
    /\ eligible_companies = <<>>
    /\ final_companies = Unbound
    /\ scored_companies_sorted = <<>>
    /\ top_5_companies = Null
    /\ top_5_companies_scored = Null
    /\ error = "none"
    /\ ScorerIdle
    /\ ScriptsIdle

\* candidates_to_try = 10 and the first test of the while condition
Start ==
    /\ pc = "start"
    /\ UNCHANGED <<scorer_vars, script_vars>>
    /\ candidates_to_try' = InitialCandidates
    /\ pc' = IF LoopTest(InitialCandidates, max_candidates) THEN "search" ELSE "score"
    /\ UNCHANGED <<world, max_candidates, reranker, tried, vector_results,
                   reranked_companies, companies_with_locations, memory_cache,
                   db_location, api_calls, submitted, gpt_response,
                   eligibility_results, eligible_companies, final_companies,
                   scored_companies_sorted, top_5_companies,
                   top_5_companies_scored, error>>

\* Stage 1: the vector search; an empty result leaves the loop with break
Search ==
    /\ pc = "search"
    /\ UNCHANGED <<scorer_vars, script_vars>>
    /\ tried' = Append(tried, candidates_to_try)
    /\ \E available \in BOOLEAN :
         vector_results' = SearchCompaniesQdrant(candidates_to_try, available)
    /\ pc' = IF vector_results' = <<>> THEN "score" ELSE "rerank"
    /\ UNCHANGED <<world, max_candidates, reranker, candidates_to_try,
                   reranked_companies, companies_with_locations, memory_cache,
                   db_location, api_calls, submitted, gpt_response,
                   eligibility_results, eligible_companies, final_companies,
                   scored_companies_sorted, top_5_companies,
                   top_5_companies_scored, error>>

\* enrichment from PostgreSQL and Stage 2: reranking
Rerank ==
    /\ pc = "rerank"
    /\ UNCHANGED <<scorer_vars, script_vars>>
    /\ reranked_companies' =
         RerankCompanies(CompaniesForReranking(vector_results, world), reranker, world)
    /\ pc' = "locate"
    /\ UNCHANGED <<world, max_candidates, reranker, candidates_to_try, tried,
                   vector_results, companies_with_locations, memory_cache,
                   db_location, api_calls, submitted, gpt_response,
                   eligibility_results, eligible_companies, final_companies,
                   scored_companies_sorted, top_5_companies,
                   top_5_companies_scored, error>>

\* Stage 3: _enrich_with_locations
Locate ==
    /\ pc = "locate"
    /\ UNCHANGED <<scorer_vars, script_vars>>
    /\ LET r == EnrichWithLocations(reranked_companies, memory_cache,
                                    db_location, api_calls, world)
       IN  /\ companies_with_locations' = r.list
           /\ memory_cache' = r.mem
           /\ db_location' = r.db
           /\ api_calls' = r.calls
    /\ pc' = "analyze"
    /\ UNCHANGED <<world, max_candidates, reranker, candidates_to_try, tried,
                   vector_results, reranked_companies, submitted, gpt_response,
                   eligibility_results, eligible_companies, final_companies,
                   scored_companies_sorted, top_5_companies,
                   top_5_companies_scored, error>>

\* Stage 4: analyze_eligibility and the filter to the eligible companies
Analyze ==
    /\ pc = "analyze"
    /\ UNCHANGED <<scorer_vars, script_vars>>
    /\ \E answer \in PipelineAnswers :
         LET r == AnalyzeEligibility(companies_with_locations, answer)
         IN  /\ submitted' = r.company_data
             /\ gpt_response' = IF r.called THEN answer ELSE NoAnswer
             /\ eligibility_results' = r.results
             /\ eligible_companies' =
                  EligibleCompanies(companies_with_locations, r.results)
    /\ pc' = "decide"
    /\ UNCHANGED <<world, max_candidates, reranker, candidates_to_try, tried,
                   vector_results, reranked_companies, companies_with_locations,
                   memory_cache, db_location, api_calls, final_companies,
                   scored_companies_sorted, top_5_companies,
                   top_5_companies_scored, error>>

\* the decision logic: finalize with the top 5, finalize at the maximum, or
\* expand by 10 and test the while condition again
Decide ==
    /\ pc = "decide"
    /\ UNCHANGED <<scorer_vars, script_vars>>
    /\ LET eligible_count == Len(eligible_companies)
       IN  IF eligible_count >= ThresholdCount
           THEN IF reranker
                THEN /\ final_companies' = Bound(TopByRerank(eligible_companies, world))
                     /\ pc' = "score"
                     /\ UNCHANGED <<candidates_to_try, error, reranked_companies,
                                    companies_with_locations, submitted,
                                    gpt_response, eligibility_results,
                                    eligible_companies>>
                ELSE \* x['rerank_score'] was never set
                     /\ pc' = "crashed"
                     /\ error' = "KeyError"
                     /\ UNCHANGED <<candidates_to_try, final_companies,
                                    reranked_companies, companies_with_locations,
                                    submitted, gpt_response, eligibility_results,
                                    eligible_companies>>
           ELSE IF candidates_to_try >= max_candidates
           THEN /\ final_companies' = Bound(eligible_companies)
                /\ pc' = "score"
                /\ UNCHANGED <<candidates_to_try, error, reranked_companies,
                               companies_with_locations, submitted, gpt_response,
                               eligibility_results, eligible_companies>>
           ELSE /\ candidates_to_try' = Expand(candidates_to_try)
                /\ pc' = IF LoopTest(candidates_to_try', max_candidates)
                         THEN "search" ELSE "score"
                /\ NoLocals
                /\ UNCHANGED <<final_companies, error>>
    /\ UNCHANGED <<world, max_candidates, reranker, tried, vector_results,
                   memory_cache, db_location, api_calls,
                   scored_companies_sorted, top_5_companies,
                   top_5_companies_scored>>

\* Stage 5: the read of final_companies, the scoring call and the sort by
\* company_score
Score ==
    /\ pc = "score"
    /\ UNCHANGED script_vars
    /\ IF ~final_companies.bound
       THEN /\ pc' = "crashed"
            /\ error' = "UnboundLocalError"
            /\ UNCHANGED <<scored_companies_sorted, scorer_vars>>
       ELSE IF ~reranker /\ final_companies.list # <<>>
       THEN /\ pc' = "crashed"
            /\ error' = "KeyError"
            /\ UNCHANGED <<scored_companies_sorted, scorer_vars>>
       ELSE /\ \E answer \in ScoreAnswers(Range(Ids(final_companies.list)), world) :
                 /\ score_response' = answer
                 /\ scored_companies_sorted' =
                      ScoredSorted(final_companies.list,
                          ComputeScoresWithLlm(Range(Ids(final_companies.list)), answer))
            /\ score_components' =
                 ScoringData([i \in DOMAIN final_companies.list |->
                                 MarkGeoEligible(final_companies.list[i])])
            /\ pc' = "save_matching"
            /\ UNCHANGED <<error, scorer_companies, scorer_incentive>>
    /\ UNCHANGED <<world, max_candidates, reranker, candidates_to_try, tried,
                   vector_results, reranked_companies, companies_with_locations,
                   memory_cache, db_location, api_calls, submitted, gpt_response,
                   eligibility_results, eligible_companies, final_companies,
                   top_5_companies, top_5_companies_scored>>

\* self.db_manager.save_matching_results(result)
SaveMatchingResults ==
    /\ pc = "save_matching"
    /\ UNCHANGED <<scorer_vars, script_vars>>
    /\ top_5_companies' =
         MatchingJson(final_companies.list, candidates_to_try, world)
    /\ pc' = "save_scored"
    /\ UNCHANGED <<world, max_candidates, reranker, candidates_to_try, tried,
                   vector_results, reranked_companies, companies_with_locations,
                   memory_cache, db_location, api_calls, submitted, gpt_response,
                   eligibility_results, eligible_companies, final_companies,
                   scored_companies_sorted, top_5_companies_scored, error>>

\* self.db_manager.save_scored_results(...) and the return
SaveScoredResults ==
    /\ pc = "save_scored"
    /\ UNCHANGED <<scorer_vars, script_vars>>
    /\ top_5_companies_scored' = ScoredJson(scored_companies_sorted, world)
    /\ pc' = "done"
    /\ UNCHANGED <<world, max_candidates, reranker, candidates_to_try, tried,
                   vector_results, reranked_companies, companies_with_locations,
                   memory_cache, db_location, api_calls, submitted, gpt_response,
                   eligibility_results, eligible_companies, final_companies,
                   scored_companies_sorted, top_5_companies, error>>

Next ==
    \/ Start
    \/ Search
    \/ Rerank
    \/ Locate
    \/ Analyze
    \/ Decide
    \/ Score
    \/ SaveMatchingResults
    \/ SaveScoredResults

Spec == Init /\ [][Next]_vars

(***************************************************************************)
(* SpecGeo: analyze_eligibility on an arbitrary candidate list and answer  *)
(***************************************************************************)
GeoIds == 1..MaxCands

\* location_api_status values a candidate can carry, with and without an
\* address
GeoStatuses ==
    {"success", "cached", "not_found", "rate_limited", "api_error",
     "incomplete_data", "unknown"}

GeoCandidates(n) ==
    [1..n -> {CompanyDict(0, CompanyLocation(st, FALSE, addr)) :
                st \in GeoStatuses, addr \in BOOLEAN}]

\* candidate lists of ids 1..n, n <= MaxCands
GeoInputs ==
    UNION {{[i \in 1..n |-> [l[i] EXCEPT !.id = i]] : l \in GeoCandidates(n)} :
             n \in 0..MaxCands}

\* every map from a subset of the ids to a boolean, a string or null
GeoMaps ==
    UNION {[{Str(c) : c \in keys} -> {"true", "false", "str", "null"}] : keys \in SUBSET GeoIds}

GeoAnswers ==
    {GptAnswer(TRUE, <<>>, EmptyMap)}
    \cup {GptAnswer(FALSE, t, EmptyMap) : t \in TextsWithoutJson \cup {<<"{", "}">>}}
    \cup {GptAnswer(FALSE, t, m) : t \in TextsWithBody, m \in GeoMaps}

InitGeo ==
    /\ companies_with_locations \in GeoInputs
    /\ pc = "geo_input"
    /\ world = "uniform"
    /\ max_candidates = DefaultMaxCandidates
    /\ reranker = TRUE
    /\ db_location = [c \in Companies |-> EmptyRow]
    /\ memory_cache = [c \in Companies |-> NotCached]
    /\ api_calls = [c \in Companies |-> 0]
    /\ candidates_to_try = 0
    /\ tried = <<>>
    /\ vector_results = <<>>
    /\ reranked_companies = <<>>
    /\ submitted = <<>>
    /\ gpt_response = NoAnswer
    /\ eligibility_results = AllIneligible(<<>>)
    /\ eligible_companies = <<>>
    /\ final_companies = Unbound
    /\ scored_companies_sorted = <<>>
    /\ top_5_companies = Null
    /\ top_5_companies_scored = Null
    /\ error = "none"
    /\ ScorerIdle
    /\ ScriptsIdle

\* one call analyze_eligibility(companies_with_locations, geo_requirement)
EvaluateGeo ==
    /\ pc = "geo_input"
    /\ UNCHANGED <<scorer_vars, script_vars>>
    /\ \E answer \in GeoAnswers :
         LET r == AnalyzeEligibility(companies_with_locations, answer)
         IN  /\ submitted' = r.company_data
             /\ gpt_response' = IF r.called THEN answer ELSE NoAnswer
             /\ eligibility_results' = r.results
             /\ eligible_companies' =
                  EligibleCompanies(companies_with_locations, r.results)
    /\ pc' = "geo_output"
    /\ UNCHANGED <<world, max_candidates, reranker, candidates_to_try, tried,
                   vector_results, reranked_companies, companies_with_locations,
                   memory_cache, db_location, api_calls, final_companies,
                   scored_companies_sorted, top_5_companies,
                   top_5_companies_scored, error>>

NextGeo == EvaluateGeo

SpecGeo == InitGeo /\ [][NextGeo]_vars

(***************************************************************************)
(* SpecFit: analyze_eligibility, then score_companies on the whole         *)
(* candidate list                                                          *)
(***************************************************************************)
\* the company dict the scorer is given: geo_eligible is set to True on the
\* companies that passed the eligibility filter and never set on another one
ScorerInput(company, results) ==
    IF results[company.id] THEN MarkGeoEligible(company) ELSE company

\* the loop of score_companies that builds scoring_data
CalculateFit ==
    /\ pc = "geo_output"
    /\ score_components' =
         ScoringData([i \in DOMAIN companies_with_locations |->
                         ScorerInput(companies_with_locations[i], eligibility_results)])
    /\ pc' = "geo_scored"
    /\ UNCHANGED <<pipeline_vars, score_response, scorer_companies,
                   scorer_incentive,
                   script_vars>>

NextFit ==
    \/ EvaluateGeo
    \/ CalculateFit

SpecFit == InitGeo /\ [][NextFit]_vars

(***************************************************************************)
(* The incentives table as several rows                                    *)
(***************************************************************************)
IncentiveIds == 1..NumIncentives

\* incentives.title
Title(incentive_id) == "Incentive " \o Str(incentive_id)

\* a row of incentives restricted to title and the two result columns
IncentiveRow(title, matching, scored) ==
    [title |-> title, top_5_companies |-> matching,
     top_5_companies_scored |-> scored]

\* the table before any result is written
EmptyIncentives ==
    [i \in IncentiveIds |-> IncentiveRow(Title(i), Null, Null)]

\* UPDATE incentives SET <column> = <value>, without the WHERE clause
UpdateIncentives_AllRows(table, column, value, incentive_id) ==
    [i \in DOMAIN table |-> [table[i] EXCEPT ![column] = value]]

\* UPDATE incentives SET <column> = <value> WHERE incentive_id = <incentive_id>
UpdateIncentives(table, column, value, incentive_id) ==
    [i \in DOMAIN table |->
        IF i = incentive_id THEN [table[i] EXCEPT ![column] = value]
        ELSE table[i]]

\* a finalized list holding the companies ids, all located
FinalOf(ids) ==
    [i \in DOMAIN ids |->
        CompanyDict(ids[i], CompanyLocation("success", TRUE, TRUE))]

\* what a run with max_candidates = 50 can return: no company after the
\* whole pool, two companies that the scoring reorders, one company whose
\* scoring failed, five companies out of the first pool
ResultShapes ==
    { [ids |-> <<>>, final_scores |-> <<>>, searched |-> DefaultMaxCandidates],
      [ids |-> <<2, 1>>, final_scores |-> (1 :> 70) @@ (2 :> 40),
       searched |-> DefaultMaxCandidates],
      [ids |-> <<3>>, final_scores |-> <<>>, searched |-> DefaultMaxCandidates],
      [ids |-> <<8, 7, 6, 5, 4>>, final_scores |-> [c \in 4..8 |-> 10 * c],
       searched |-> InitialCandidates] }

\* the MatchingResult of a run of shape for incentive_id
ResultOf(incentive_id, shape) ==
    MatchingResult(incentive_id, FinalOf(shape.ids), shape.searched,
                   ScoredSorted(FinalOf(shape.ids), shape.final_scores))

\* the state of find_matching_companies is not looked at
PipelineIdle ==
    /\ world = "uniform"
    /\ max_candidates = DefaultMaxCandidates
    /\ reranker = TRUE
    /\ db_location = [c \in Companies |-> EmptyRow]
    /\ memory_cache = [c \in Companies |-> NotCached]
    /\ api_calls = [c \in Companies |-> 0]
    /\ candidates_to_try = 0
    /\ tried = <<>>
    /\ vector_results = <<>>
    /\ reranked_companies = <<>>
    /\ companies_with_locations = <<>>
    /\ submitted = <<>>
    /\ gpt_response = NoAnswer
    /\ eligibility_results = AllIneligible(<<>>)
    /\ eligible_companies = <<>>
    /\ final_companies = Unbound
    /\ scored_companies_sorted = <<>>
    /\ top_5_companies = Null
    /\ top_5_companies_scored = Null
    /\ error = "none"

(***************************************************************************)
(* SpecStore: results of several runs persisted one after the other        *)
(***************************************************************************)
InitStore ==
    /\ pc = "store_idle"
    /\ incentives = EmptyIncentives
    /\ result = NoResult
    /\ persisted = <<>>
    /\ PipelineIdle
    /\ ScorerIdle
    /\ BatchIdle
    /\ IndexIdle

\* result = MatchingResult(...) at the end of a run for some incentive
CreateResult ==
    /\ pc = "store_idle"
    /\ Len(persisted) < MaxWrites
    /\ \E i \in IncentiveIds, shape \in ResultShapes :
         result' = ResultOf(i, shape)
    /\ pc' = "store_matching"
    /\ UNCHANGED <<pipeline_vars, scorer_vars, incentives, persisted,
                   batch_vars, index_vars>>

\* save_matching_results(result) on the table
SaveMatchingResultsRow ==
    /\ pc = "store_matching"
    /\ incentives' =
         UpdateIncentives(incentives, "top_5_companies",
             MatchingJson(result.companies, result.total_candidates_searched, world),
             result.incentive_id)
    /\ pc' = "store_scored"
    /\ UNCHANGED <<pipeline_vars, scorer_vars, result, persisted,
                   batch_vars, index_vars>>

\* save_scored_results(incentive['id'], scored_companies_sorted, ...) on the
\* table
SaveScoredResultsRow ==
    /\ pc = "store_scored"
    /\ incentives' =
         UpdateIncentives(incentives, "top_5_companies_scored",
             ScoredJson(result.scored_companies_sorted, world),
             result.incentive_id)
    /\ persisted' = Append(persisted, result)
    /\ pc' = "store_idle"
    /\ UNCHANGED <<pipeline_vars, scorer_vars, result, batch_vars, index_vars>>

NextStore ==
    \/ CreateResult
    \/ SaveMatchingResultsRow
    \/ SaveScoredResultsRow

SpecStore == InitStore /\ [][NextStore]_vars

(***************************************************************************)
(* SpecScore: score_companies on arbitrary companies, semantic scores and  *)
(* incentive texts                                                         *)
(***************************************************************************)
\* rerank scores as percentages, among them a negative one
ScoreValues == {-20, 0, 40, 100}

\* what the scorer reads of a company apart from its rerank score
CompanyProfiles ==
    << [name |-> {"LDA"}, website |-> "url", keywords |-> {"energia", "de"},
        location_api_status |-> "success", geo_eligible |-> TRUE],
       [name |-> {"S.A.", "SGPS"}, website |-> "N/A", keywords |-> {"turismo"},
        location_api_status |-> "success"],
       [name |-> {"UNIPESSOAL", "LDA"}, website |-> "None",
        keywords |-> {"energia", "turismo", "solar"},
        location_api_status |-> "not_found"],
       [name |-> {}, website |-> "", keywords |-> {"de"},
        location_api_status |-> "cached"],
       [name |-> {"SA ", "COOPERATIVA"}, website |-> "url", keywords |-> {},
        location_api_status |-> "success", geo_eligible |-> TRUE],
       [name |-> {"SGPS"}, website |-> "url", keywords |-> {"energia"},
        location_api_status |-> "rate_limited"] >>

\* what the scorer reads of an incentive
IncentiveProfiles ==
    { [keywords |-> {"energia", "de", "solar"}, text |-> {"pme"}],
      [keywords |-> {"energia", "turismo"}, text |-> {"social", "pme"}],
      [keywords |-> {"de"}, text |-> {"multinacional"}],
      [keywords |-> {}, text |-> {}],
      [keywords |-> {"turismo"}, text |-> {"governo"}],
      [keywords |-> {"agricultura"}, text |-> {"startup", "s.a."}] }

\* company i of a list: the profile at position first + i, with its id and
\* its rerank score
ScoredCompany(i, first, score) ==
    LET profile == CompanyProfiles[((first + i) % Len(CompanyProfiles)) + 1]
    IN  [f \in DOMAIN profile \cup {"id", "rerank_score"} |->
            CASE f = "id" -> i
              [] f = "rerank_score" -> score
              [] OTHER -> profile[f]]

InitScore ==
    /\ pc = "score_input"
    /\ \E n \in 0..MaxScored, first \in 1..Len(CompanyProfiles) :
         \E scores \in [1..n -> ScoreValues] :
            scorer_companies = [i \in 1..n |-> ScoredCompany(i, first, scores[i])]
    /\ scorer_incentive \in IncentiveProfiles
    /\ score_response = NoAnswer
    /\ score_components = <<>>
    /\ PipelineIdle
    /\ ScriptsIdle

\* score_companies(scorer_companies, scorer_incentive, semantic_scores) with
\* semantic_scores = [c['rerank_score'] for c in final_companies]
ScoreCompanies ==
    /\ pc = "score_input"
    /\ score_components' =
         ScoreComponents(scorer_companies, scorer_incentive,
                         [i \in DOMAIN scorer_companies |-> scorer_companies[i].rerank_score])
    /\ \E answer \in ScoreAnswers(Range(Ids(scorer_companies)), world) :
         /\ score_response' = answer
         /\ scorer_companies' =
              [i \in DOMAIN scorer_companies |->
                  [f \in DOMAIN scorer_companies[i] \cup {"company_score"} |->
                      IF f = "company_score"
                      THEN CompanyScore(
                               ComputeScoresWithLlm(Range(Ids(scorer_companies)), answer),
                               scorer_companies[i].id)
                      ELSE scorer_companies[i][f]]]
    /\ pc' = "score_output"
    /\ UNCHANGED <<pipeline_vars, scorer_incentive, script_vars>>

NextScore == ScoreCompanies

SpecScore == InitScore /\ [][NextScore]_vars

(***************************************************************************)
(* SpecIndex: build_company_incentive_index.py                             *)
(***************************************************************************)
ScoredIds == 1..NumScored

\* company ids of the companies table in SpecIndex
IndexCompanies == 1..3

\* companies.eligible_incentives: NULL, or a JSON array
NullColumn == [written |-> FALSE, value |-> <<>>]

JsonColumn(value) == [written |-> TRUE, value |-> value]

\* an element of the array: the dict build_reverse_index appends
IndexEntry(incentive_id, title, rank, company_score) ==
    [incentive_id |-> incentive_id, title |-> title, rank |-> rank,
     company_score |-> company_score]

\* what top_5_companies_scored of incentive i holds: NULL, a result
\* without companies, company 1 alone with a score that grows with i, or
\* company 2 ahead of company 1
ScoredKinds == {"null", "empty", "alone", "second"}

ScoredColumn(i, kind) ==
    CASE kind = "null"  -> Null
      [] kind = "empty" -> ScoredJson(<<>>, "uniform")
      [] kind = "alone" ->
            ScoredJson(<<[id |-> 1, company_score |-> 10 * i]>>, "uniform")
      [] OTHER ->
            ScoredJson(<<[id |-> 2, company_score |-> 80],
                         [id |-> 1, company_score |-> 30]>>, "uniform")

\* fetch_all_incentives_with_scores: the rows WHERE top_5_companies_scored
\* IS NOT NULL, ORDER BY incentive_id
FetchAllIncentivesWithScores(table) ==
    LET ids == SelectSeq([i \in 1..Cardinality(DOMAIN table) |-> i],
                         LAMBDA i : table[i].top_5_companies_scored.written)
    IN  [k \in DOMAIN ids |->
            [incentive_id |-> ids[k], title |-> table[ids[k]].title,
             scored_data |-> table[ids[k]].top_5_companies_scored]]

\* the dicts the loops of build_reverse_index append to
\* company_incentives[company_id], in order
RECURSIVE Appended(_, _)
Appended(fetched, company_id) ==
    IF fetched = <<>> THEN <<>>
    ELSE LET incentive == Head(fetched)
             companies == SelectSeq(incentive.scored_data.companies,
                                    LAMBDA company : company.id = company_id)
         IN  [k \in DOMAIN companies |->
                 IndexEntry(incentive.incentive_id, incentive.title,
                            companies[k].rank, companies[k].company_score)]
             \o Appended(Tail(fetched), company_id)

\* the company ids that appear in the fetched results
IndexedCompanies(fetched) ==
    UNION {{company.id : company \in Range(fetched[k].scored_data.companies)} :
              k \in DOMAIN fetched}

\* build_reverse_index without the sort by company_score
BuildReverseIndex_NoSort(fetched) ==
    [company_id \in IndexedCompanies(fetched) |->
        Take(Appended(fetched, company_id), IndexLimit)]

\* build_reverse_index: group by company, sort by company_score descending,
\* keep 5
BuildReverseIndex(fetched) ==
    [company_id \in IndexedCompanies(fetched) |->
        LET entries == Appended(fetched, company_id)
            key     == [e \in Range(entries) |-> e.company_score]
        IN  Take(SortedDesc(entries, key), IndexLimit)]

\* save_reverse_index: one UPDATE companies SET eligible_incentives = ...
\* WHERE company_id = ... per key of company_incentives
SaveReverseIndex(column, index) ==
    [company_id \in DOMAIN column |->
        IF company_id \in DOMAIN index THEN JsonColumn(index[company_id])
        ELSE column[company_id]]

\* the column before the build: NULL everywhere, or the index of an earlier
\* build made when company 3 was in the result of incentive 1
PriorIndexes ==
    { [c \in IndexCompanies |-> NullColumn],
      [c \in IndexCompanies |->
          IF c = 3 THEN JsonColumn(<<IndexEntry(1, Title(1), 1, 50)>>)
          ELSE NullColumn] }

InitIndex ==
    /\ pc = "index_fetch"
    /\ \E kind \in [ScoredIds -> ScoredKinds] :
         incentives =
            [i \in ScoredIds |->
                IncentiveRow(Title(i), Null, ScoredColumn(i, kind[i]))]
    /\ eligible_incentives \in PriorIndexes
    /\ company_incentives = <<>>
    /\ result = NoResult
    /\ persisted = <<>>
    /\ PipelineIdle
    /\ ScorerIdle
    /\ BatchIdle

\* incentives = fetch_all_incentives_with_scores() and
\* company_incentives = build_reverse_index(incentives)
BuildIndex ==
    /\ pc = "index_fetch"
    /\ company_incentives' =
         BuildReverseIndex(FetchAllIncentivesWithScores(incentives))
    /\ pc' = "index_built"
    /\ UNCHANGED <<pipeline_vars, scorer_vars, store_vars, batch_vars,
                   eligible_incentives>>

\* save_reverse_index(company_incentives)
SaveIndex ==
    /\ pc = "index_built"
    /\ eligible_incentives' = SaveReverseIndex(eligible_incentives, company_incentives)
    /\ pc' = "index_saved"
    /\ UNCHANGED <<pipeline_vars, scorer_vars, store_vars, batch_vars,
                   company_incentives>>

NextIndex ==
    \/ BuildIndex
    \/ SaveIndex

SpecIndex == InitIndex /\ [][NextIndex]_vars

(***************************************************************************)
(* SpecBatch: the loop of main in batch_process_all_incentives.py and the  *)
(* two loops of process_batch in batch_process_with_scoring.py.  A call of *)
(* find_matching_companies either raises before its first write, or makes  *)
(* the first write and then raises in the second, or makes both writes and *)
(* returns its result.                                                     *)
(***************************************************************************)
Drivers == {"all_incentives", "with_scoring"}

\* what earlier runs left for an incentive: nothing, a result with
\* companies, a result without companies and an entry in the skip file, or
\* such an entry and a row that setup_postgres.py has created again since
PriorKinds == {"new", "matched", "skipped", "recreated"}

\* the row earlier runs left for incentive i
PriorRow(i, kind) ==
    LET shape == CHOOSE sh \in ResultShapes :
                    IF kind = "matched" THEN sh.ids = <<2, 1>> ELSE sh.ids = <<>>
        prior == ResultOf(i, shape)
    IN  IF kind \in {"new", "recreated"} THEN IncentiveRow(Title(i), Null, Null)
        ELSE IncentiveRow(Title(i),
                 MatchingJson(prior.companies, prior.total_candidates_searched, "uniform"),
                 ScoredJson(prior.scored_companies_sorted, "uniform"))

\* get_all_processable_incentives() filtered to the incentives that are not
\* already_processed
GetAllProcessableIncentives(table) ==
    SelectSeq([i \in 1..Cardinality(DOMAIN table) |-> i],
              LAMBDA i : ~table[i].top_5_companies.written)

\* get_unscored_incentives(limit=None, include_skipped=retry_skipped)
GetUnscoredIncentives(table, skipped_ids, retry_skipped) ==
    LET results == SelectSeq([i \in 1..Cardinality(DOMAIN table) |-> i],
                             LAMBDA i : ~table[i].top_5_companies_scored.written)
        priority_incentives == SelectSeq(results, LAMBDA i : i \notin skipped_ids)
        skipped_incentives  == SelectSeq(results, LAMBDA i : i \in skipped_ids)
    IN  IF retry_skipped THEN priority_incentives \o skipped_incentives
        ELSE priority_incentives

\* save_skipped_ids(skipped_ids): the new content of the file
SaveSkippedIds(skipped_ids) == skipped_ids

\* remove_from_skipped(incentive_id): the new content of the file
RemoveFromSkipped(file, incentive_id) ==
    IF incentive_id \in file THEN SaveSkippedIds(file \ {incentive_id}) ELSE file

\* the counters and the skip bookkeeping of a driver
Bookkeeping ==
    [successful |-> successful, failed |-> failed, skipped |-> skipped,
     skipped_queue |-> skipped_queue, persistent_skipped |-> persistent_skipped,
     skipped_file |-> skipped_file]

\* what a driver does when find_matching_companies returns a result with
\* the list companies for incentive id
OnReturn(drv, retry, st, id, companies) ==
    IF drv = "all_incentives"
    THEN [st EXCEPT !.successful = @ + 1]
    ELSE IF ~retry
    THEN IF Len(companies) > 0
         THEN [st EXCEPT !.successful = @ + 1,
                         !.skipped_file = IF id \in st.persistent_skipped
                                          THEN RemoveFromSkipped(@, id) ELSE @]
         ELSE [st EXCEPT !.skipped = @ + 1,
                         !.skipped_queue = Append(@, id),
                         !.persistent_skipped = @ \cup {id},
                         !.skipped_file = SaveSkippedIds(st.persistent_skipped \cup {id})]
    ELSE IF Len(companies) > 0
         THEN [st EXCEPT !.successful = @ + 1,
                         !.skipped = @ - 1,
                         !.skipped_file = RemoveFromSkipped(@, id)]
         ELSE st

\* an except clause that does not count the failure
OnException_NotCounted(drv, retry, st) ==
    IF drv = "with_scoring" /\ retry THEN [st EXCEPT !.skipped = @ - 1] ELSE st

\* what a driver does when find_matching_companies raises an Exception
OnException(drv, retry, st) ==
    IF drv = "with_scoring" /\ retry
    THEN [st EXCEPT !.failed = @ + 1, !.skipped = @ - 1]
    ELSE [st EXCEPT !.failed = @ + 1]

\* the list the current loop goes over
LoopList == IF retrying THEN skipped_queue ELSE batch_incentives

\* incentive['id'] of the current iteration
Current == LoopList[position]

InitBatch ==
    /\ driver \in Drivers
    /\ \E kind \in [IncentiveIds -> PriorKinds] :
         /\ incentives = [i \in IncentiveIds |-> PriorRow(i, kind[i])]
         /\ skipped_file =
              IF driver = "with_scoring"
              THEN {i \in IncentiveIds : kind[i] \in {"skipped", "recreated"}}
              ELSE {}
    /\ include_skipped \in IF driver = "with_scoring" THEN BOOLEAN ELSE {FALSE}
    /\ batch_incentives =
         IF driver = "all_incentives" THEN GetAllProcessableIncentives(incentives)
         ELSE GetUnscoredIncentives(incentives, skipped_file, include_skipped)
    /\ persistent_skipped = skipped_file
    /\ pc = IF batch_incentives = <<>> THEN "batch_done" ELSE "batch_loop"
    /\ retrying = FALSE
    /\ position = 1
    /\ successful = 0
    /\ failed = 0
    /\ skipped = 0
    /\ skipped_queue = <<>>
    /\ outcome = [i \in IncentiveIds |-> "none"]
    /\ interrupted = NoInterrupt
    /\ result = NoResult
    /\ persisted = <<>>
    /\ PipelineIdle
    /\ ScorerIdle
    /\ IndexIdle

\* the bookkeeping variables take the values of st
Booked(st) ==
    /\ successful' = st.successful
    /\ failed' = st.failed
    /\ skipped' = st.skipped
    /\ skipped_queue' = st.skipped_queue
    /\ persistent_skipped' = st.persistent_skipped
    /\ skipped_file' = st.skipped_file

\* the for statement takes the next incentive and calls
\* find_matching_companies
StartIncentive ==
    /\ pc = "batch_loop"
    /\ position <= Len(LoopList)
    /\ pc' = "batch_running"
    /\ UNCHANGED <<pipeline_vars, scorer_vars, store_vars, batch_vars, index_vars>>

\* the for statement is exhausted: process_batch goes on with the skipped
\* queue, or the driver prints its summary
EndLoop ==
    /\ pc = "batch_loop"
    /\ position > Len(LoopList)
    /\ IF driver = "with_scoring" /\ ~retrying /\ skipped_queue # <<>>
       THEN /\ retrying' = TRUE
            /\ position' = 1
            /\ pc' = "batch_loop"
       ELSE /\ pc' = "batch_done"
            /\ UNCHANGED <<retrying, position>>
    /\ UNCHANGED <<pipeline_vars, scorer_vars, store_vars, index_vars, driver,
                   include_skipped, batch_incentives, successful, failed, skipped,
                   skipped_queue, persistent_skipped, skipped_file, outcome,
                   interrupted>>

\* find_matching_companies raises before its first write and the driver's
\* except Exception clause runs
RunRaises ==
    /\ pc = "batch_running"
    /\ Booked(OnException(driver, retrying, Bookkeeping))
    /\ outcome' = [outcome EXCEPT ![Current] = "failure"]
    /\ position' = position + 1
    /\ pc' = "batch_loop"
    /\ UNCHANGED <<pipeline_vars, scorer_vars, store_vars, index_vars, driver,
                   include_skipped, batch_incentives, retrying, interrupted>>

\* find_matching_companies builds its result and save_matching_results
\* writes it
RunSavesMatching ==
    /\ pc = "batch_running"
    /\ \E shape \in ResultShapes : result' = ResultOf(Current, shape)
    /\ incentives' =
         UpdateIncentives(incentives, "top_5_companies",
             MatchingJson(result'.companies, result'.total_candidates_searched, world),
             Current)
    /\ pc' = "batch_saving"
    /\ UNCHANGED <<pipeline_vars, scorer_vars, persisted, batch_vars, index_vars>>

\* save_scored_results raises and the driver's except Exception clause runs
SaveScoredRaises ==
    /\ pc = "batch_saving"
    /\ Booked(OnException(driver, retrying, Bookkeeping))
    /\ outcome' = [outcome EXCEPT ![Current] = "failure"]
    /\ result' = NoResult
    /\ position' = position + 1
    /\ pc' = "batch_loop"
    /\ UNCHANGED <<pipeline_vars, scorer_vars, incentives, persisted, index_vars,
                   driver, include_skipped, batch_incentives, retrying,
                   interrupted>>

\* save_scored_results writes, find_matching_companies returns and the
\* driver counts the result
RunReturns ==
    /\ pc = "batch_saving"
    /\ incentives' =
         UpdateIncentives(incentives, "top_5_companies_scored",
             ScoredJson(result.scored_companies_sorted, world), Current)
    /\ Booked(OnReturn(driver, retrying, Bookkeeping, Current, result.companies))
    /\ outcome' = [outcome EXCEPT ![Current] =
                      IF Len(result.companies) > 0 THEN "success" ELSE "zero"]
    /\ result' = NoResult
    /\ position' = position + 1
    /\ pc' = "batch_loop"
    /\ UNCHANGED <<pipeline_vars, scorer_vars, persisted, index_vars, driver,
                   include_skipped, batch_incentives, retrying, interrupted>>

\* KeyboardInterrupt is raised inside find_matching_companies: main of
\* batch_process_all_incentives.py breaks and prints its summary, which
\* divides by successful + failed; process_batch has no handler for it
KeyboardInterrupt ==
    /\ pc \in {"batch_running", "batch_saving"}
    /\ interrupted' = [incentive |-> Current, stage |-> pc]
    /\ pc' = IF driver = "with_scoring" THEN "batch_killed"
             ELSE IF successful + failed = 0 THEN "batch_crashed"
             ELSE "batch_done"
    /\ UNCHANGED <<pipeline_vars, scorer_vars, store_vars, index_vars, driver,
                   include_skipped, batch_incentives, retrying, position,
                   successful, failed, skipped, skipped_queue, persistent_skipped,
                   skipped_file, outcome>>

NextBatch ==
    \/ StartIncentive
    \/ EndLoop
    \/ RunRaises
    \/ RunSavesMatching
    \/ SaveScoredRaises
    \/ RunReturns
    \/ KeyboardInterrupt

SpecBatch == InitBatch /\ [][NextBatch]_vars

(***************************************************************************)
(* SpecRerun: SpecBatch, and batch_process_with_scoring.py started again   *)
(* on the table and the skip file the previous process left                *)
(***************************************************************************)
\* main() of batch_process_with_scoring.py after the previous process has
\* ended: get_unscored_incentives, then the start of process_batch
RunMainAgain ==
    /\ driver = "with_scoring"
    /\ pc \in {"batch_done", "batch_killed"}
    /\ include_skipped' \in BOOLEAN
    /\ batch_incentives' =
         GetUnscoredIncentives(incentives, skipped_file, include_skipped')
    /\ persistent_skipped' = skipped_file
    /\ pc' = IF batch_incentives' = <<>> THEN "batch_done" ELSE "batch_loop"
    /\ retrying' = FALSE
    /\ position' = 1
    /\ successful' = 0
    /\ failed' = 0
    /\ skipped' = 0
    /\ skipped_queue' = <<>>
    /\ outcome' = [i \in IncentiveIds |-> "none"]
    /\ interrupted' = NoInterrupt
    /\ UNCHANGED <<pipeline_vars, scorer_vars, store_vars, index_vars, driver,
                   skipped_file>>

NextRerun ==
    \/ NextBatch
    \/ RunMainAgain

SpecRerun == InitBatch /\ [][NextRerun]_vars

(***************************************************************************)
(* Properties                                                              *)
(***************************************************************************)
\* ceil(a / b) for a >= 0, b > 0
CeilDiv(a, b) == (a + b - 1) \div b

IdsOf(companies) == {c.id : c \in Range(companies)}

\* C1: whenever find_matching_companies finalizes, the finalized company
\* list has at most 5 companies, and so has each persisted ranking.
C1_FinalAtMostThreshold ==
    /\ final_companies.bound => Len(final_companies.list) <= 5
    /\ Len(scored_companies_sorted) <= 5
    /\ Len(top_5_companies.companies) <= 5
    /\ Len(top_5_companies_scored.companies) <= 5

\* a run that found more than 5 eligible companies and persisted 5 of them
C1_Witness ==
    /\ pc = "done"
    /\ Len(eligible_companies) > 5
    /\ Len(top_5_companies.companies) = 5
    /\ Len(top_5_companies_scored.companies) = 5

ScoreOf(c) == RerankScore(world, c.id)

\* list holds exactly the 5 members of eligible with the highest rerank
\* scores, in descending order of rerank score
IsTopFive(list, eligible) ==
    /\ Len(list) = 5
    /\ Range(list) \subseteq Range(eligible)
    /\ \A i, j \in DOMAIN list : i < j =>
          /\ list[i] # list[j]
          /\ ScoreOf(list[i]) >= ScoreOf(list[j])
    /\ \A c \in Range(eligible) \ Range(list) :
          \A i \in DOMAIN list : ScoreOf(c) <= ScoreOf(list[i])

\* C3: in an iteration with at least 5 eligible candidates the run finalizes
\* in that iteration with exactly the 5 eligible candidates of highest rerank
\* score, in descending order, and candidates_to_try is not increased.
C3_FinalizesWithTopFive ==
    [][(pc = "decide" /\ Len(eligible_companies) >= 5) =>
          /\ pc' = "score"
          /\ final_companies'.bound
          /\ IsTopFive(final_companies'.list, eligible_companies)
          /\ candidates_to_try' = candidates_to_try]_vars

\* C4: with fewer than 5 eligible candidates the run finalizes with exactly
\* the eligible candidates when candidates_to_try >= max_candidates, and
\* otherwise repeats the pipeline at candidates_to_try + 10 without finalizing.
C4_FinalizeAtMaximumOrRepeat ==
    [][(pc = "decide" /\ Len(eligible_companies) < 5) =>
          IF candidates_to_try >= max_candidates
          THEN /\ pc' = "score"
               /\ final_companies' = Bound(eligible_companies)
               /\ candidates_to_try' = candidates_to_try
          ELSE /\ pc' = "search"
               /\ final_companies' = final_companies
               /\ candidates_to_try' = candidates_to_try + 10]_vars

\* the vector search of the current iteration returned an empty list
RetrievalEmpty == tried # <<>> /\ vector_results = <<>> /\ pc # "search"

\* C5: when retrieval returns an empty list the run finalizes with an empty
\* company set: it raises no exception, and what it persists has zero
\* companies.
C5_EmptyRetrievalFinalizesEmpty ==
    RetrievalEmpty =>
        /\ pc # "crashed"
        /\ pc = "done" => /\ top_5_companies.written
                          /\ top_5_companies.companies = <<>>

\* analyze_eligibility has returned
Analyzed == pc \in {"geo_output", "decide"}

\* C6: the map analyze_eligibility returns has exactly one entry for each
\* candidate identifier passed in and no other key.
C6_OneEntryPerCandidate ==
    Analyzed => DOMAIN eligibility_results = IdsOf(companies_with_locations)

\* a full list with a located and an unlocated candidate, answered by a map
\* that names neither all nor none of them
C6_Witness ==
    /\ pc = "geo_output"
    /\ Len(companies_with_locations) = MaxCands
    /\ \E c \in Range(companies_with_locations) : c.location_api_status # "success"
    /\ submitted # <<>>
    /\ gpt_response.map # EmptyMap
    /\ \E c \in Range(companies_with_locations) : Str(c.id) \notin DOMAIN gpt_response.map

\* the tokens of the answer from its first "{" to its last "}" are a JSON
\* object (the answer is not empty, holds an object and the object parses)
HoldsObject(answer) ==
    /\ ~answer.exc
    /\ \E i, j \in DOMAIN answer.text :
          /\ i < j
          /\ answer.text[i] = "{" /\ \A k \in 1..(i - 1) : answer.text[k] # "{"
          /\ answer.text[j] = "}" /\ \A k \in (j + 1)..Len(answer.text) : answer.text[k] # "}"
          /\ \/ j = i + 1
             \/ j = i + 2 /\ answer.text[i + 1] = "BODY"

\* C7: analyze_eligibility fails closed: a candidate whose identifier is
\* absent from the parsed map is false, and when the answer is empty, holds
\* no JSON object or does not parse (or the call raises), every candidate is
\* false.
C7_FailsClosed ==
    Analyzed =>
        \A c \in Range(companies_with_locations) :
            (\/ ~HoldsObject(gpt_response)
             \/ Str(c.id) \notin DOMAIN gpt_response.map)
            => eligibility_results[c.id] = FALSE

\* an answer that parses, makes one located candidate eligible and leaves
\* another located candidate out
C7_Witness ==
    /\ pc = "geo_output"
    /\ HoldsObject(gpt_response)
    /\ \E c, e \in Range(companies_with_locations) :
          /\ c.location_api_status = "success" /\ c.formatted_address
          /\ Str(c.id) \notin DOMAIN gpt_response.map
          /\ eligibility_results[c.id] = FALSE
          /\ eligibility_results[e.id] = TRUE

\* C8: a candidate whose location status is not success is never part of the
\* data submitted to the reasoning call and is false in the returned map,
\* whatever the answer says about its identifier.
C8_UnlocatedExcluded ==
    Analyzed =>
        \A c \in Range(companies_with_locations) :
            c.location_api_status # "success" =>
                /\ c.id \notin Range(submitted)
                /\ eligibility_results[c.id] = FALSE

\* the answer says true for a candidate with an address whose status is not
\* success, next to a candidate it makes eligible
C8_Witness ==
    /\ pc = "geo_output"
    /\ HoldsObject(gpt_response)
    /\ \E c, e \in Range(companies_with_locations) :
          /\ c.location_api_status # "success" /\ c.formatted_address
          /\ Str(c.id) \in DOMAIN gpt_response.map
          /\ gpt_response.map[Str(c.id)] = "true"
          /\ eligibility_results[c.id] = FALSE
          /\ eligibility_results[e.id] = TRUE

\* C9: a company whose location was resolved with status success and is
\* served from the persistent cache (status cached) is submitted to the
\* eligibility reasoning call like a success record.
C9_CachedSuccessTrusted ==
    pc = "decide" =>
        \A c \in Range(companies_with_locations) :
            (/\ c.location_api_status = "cached"
             /\ db_location[c.id].location_api_status = "success")
            => c.id \in Range(submitted)

\* the location the geocoding call gives for company c
Geocoded(c) == CallGoogleMapsApi(GeoRaw(world, c))

\* C10: within one run at most one geocoding call is made per company, and
\* the outcome of that call, success or failure, is in the in-process cache
\* and in the persistent cache.
C10_OneGeocodingCall ==
    \A c \in Companies :
        /\ api_calls[c] <= 1
        /\ api_calls[c] = 1 =>
              /\ memory_cache[c] = Geocoded(c)
              /\ db_location[c] = SaveCompanyLocation(Geocoded(c))

\* a company whose lookup failed is resolved again in the second iteration
C10_Witness ==
    /\ Len(tried) >= 2
    /\ pc = "analyze"
    /\ \E c \in IdsOf(companies_with_locations) :
          /\ c <= 10
          /\ api_calls[c] = 1
          /\ memory_cache[c].api_status \in
                {"not_found", "api_error", "rate_limited", "incomplete_data"}

\* the status the mapping of the geocoding responses gives to a raw response:
\* success for a match with coordinates and address, incomplete_data for a
\* match without geometry, not_found for zero results, rate_limited for the
\* quota signal, api_error for every other failure
MappedStatus(raw) ==
    CASE raw.exc # "none"                  -> "api_error"
      [] raw.status = "OVER_QUERY_LIMIT"   -> "rate_limited"
      [] raw.status = "ZERO_RESULTS"       -> "not_found"
      [] raw.status = "OK" /\ raw.place = "absent"      -> "not_found"
      [] raw.status = "OK" /\ raw.place = "no_geometry" -> "incomplete_data"
      [] raw.status = "OK"                 -> "success"
      [] OTHER                             -> "api_error"

\* C11: a geocoding response is mapped to the status success (match with
\* coordinates and address), incomplete_data (match without geometry),
\* not_found (zero results), rate_limited (quota exceeded, without a retry)
\* or api_error (every other failure: denied or invalid request, transport
\* error, malformed response).
C11_StatusMapping ==
    \A c \in Companies :
        api_calls[c] >= 1 =>
            /\ memory_cache[c].api_status = MappedStatus(GeoRaw(world, c))
            /\ GeoRaw(world, c).status = "OVER_QUERY_LIMIT" => api_calls[c] = 1

C13_RerankerFallback ==
    ~reranker =>
        /\ pc \in {"locate", "analyze", "decide"} =>
              reranked_companies = CompaniesForReranking(vector_results, world)
        /\ error # "KeyError"

\* the scoring answer cannot be parsed into a map from company ids to
\* numbers: the call raised, the text is empty, holds no JSON object or an
\* invalid one, or a key is not an integer or a value not a number
ScoringFailed(answer) ==
    \/ answer.exc
    \/ ~HoldsObject(answer)
    \/ \E k \in DOMAIN answer.map :
          \/ \A c \in Companies : k # Str(c)
          \/ answer.map[k].kind # "number"

\* the scoring call of the run has returned
Scored == pc \in {"save_matching", "save_scored", "done"}

C15_FailureLeavesScoreUnset ==
    (Scored /\ ScoringFailed(score_response)) =>
        /\ \A i \in DOMAIN scored_companies_sorted :
              scored_companies_sorted[i].company_score \notin Int
        /\ \A i \in DOMAIN top_5_companies_scored.companies :
              top_5_companies_scored.companies[i].company_score \notin Int

\* the positions of persisted that hold a result of incentive i
WritesOf(i) == {k \in DOMAIN persisted : persisted[k].incentive_id = i}

\* the latest persisted result of incentive i
LastWrite(i) ==
    persisted[CHOOSE k \in WritesOf(i) : \A j \in WritesOf(i) : j <= k]

\* C16: after results were persisted, the table holds one row per incentive;
\* the two rankings of an incentive are those of the latest result persisted
\* for it, and an incentive for which nothing was persisted is unchanged.
C16_OverwriteNotAppend ==
    pc = "store_idle" =>
        /\ DOMAIN incentives = IncentiveIds
        /\ \A i \in IncentiveIds :
              IF WritesOf(i) = {} THEN incentives[i] = EmptyIncentives[i]
              ELSE /\ incentives[i].top_5_companies =
                        MatchingJson(LastWrite(i).companies,
                                     LastWrite(i).total_candidates_searched, world)
                   /\ incentives[i].top_5_companies_scored =
                        ScoredJson(LastWrite(i).scored_companies_sorted, world)

\* two different results persisted for one incentive, after a result
\* persisted for another incentive
C16_Witness ==
    /\ pc = "store_idle"
    /\ Len(persisted) = 3
    /\ persisted[1].incentive_id # persisted[2].incentive_id
    /\ persisted[2].incentive_id = persisted[3].incentive_id
    /\ persisted[1].companies # <<>>
    /\ persisted[2].companies # <<>>
    /\ persisted[3].companies # <<>>
    /\ persisted[2].companies # persisted[3].companies
    /\ incentives[persisted[3].incentive_id].top_5_companies_scored =
         ScoredJson(persisted[3].scored_companies_sorted, world)

\* the occurrences of company c in the persisted score-ordered results, as
\* index entries
Occurrences(c) ==
    {IndexEntry(i, incentives[i].title, company.rank, company.company_score) :
        <<i, company>> \in
            {<<i, company>> \in
                UNION {{<<j, x>> : x \in Range(incentives[j].top_5_companies_scored.companies)} :
                          j \in DOMAIN incentives} :
                company.id = c}}

\* C17: after build_reverse_index, every company that appears in a persisted
\* score-ordered result has an index entry of at most 5 incentives, ordered
\* by company_score descending and made of the occurrences with the highest
\* scores; each element carries incentive_id, title, rank and company_score
\* of one occurrence.
C17_ReverseIndexTopFive ==
    pc \in {"index_built", "index_saved"} =>
        \A c \in IndexCompanies :
            Occurrences(c) # {} =>
                /\ c \in DOMAIN company_incentives
                /\ LET entry == company_incentives[c]
                   IN  /\ Len(entry) = Min(5, Cardinality(Occurrences(c)))
                       /\ Range(entry) \subseteq Occurrences(c)
                       /\ \A k \in DOMAIN entry :
                             DOMAIN entry[k] =
                                {"incentive_id", "title", "rank", "company_score"}
                       /\ \A j, k \in DOMAIN entry : j < k =>
                             /\ entry[j] # entry[k]
                             /\ entry[j].company_score >= entry[k].company_score
                       /\ \A o \in Occurrences(c) \ Range(entry) :
                             \A k \in DOMAIN entry :
                                 o.company_score <= entry[k].company_score

\* company 1 appears in more than 5 results, with two equal scores among
\* them, and company 2 is indexed too
C17_Witness ==
    /\ pc = "index_built"
    /\ Cardinality(Occurrences(1)) > 5
    /\ Len(company_incentives[1]) = 5
    /\ \E o, q \in Occurrences(1) : o # q /\ o.company_score = q.company_score
    /\ company_incentives[1][1].company_score > company_incentives[1][5].company_score
    /\ 2 \in DOMAIN company_incentives

\* C18: when the processing of an incentive raises an error, before or
\* between the result writes, the driver adds one to its count of failures,
\* changes neither the count of successes nor the outcome of another
\* incentive, and goes to the next incentive; a run that was not interrupted
\* ends only after every incentive of the batch was processed.
C18_FailureDoesNotAbortBatch ==
    /\ [][(RunRaises \/ SaveScoredRaises) =>
            /\ failed' = failed + 1
            /\ successful' = successful
            /\ \A i \in IncentiveIds : i # Current => outcome'[i] = outcome[i]
            /\ batch_incentives' = batch_incentives
            /\ position' = position + 1
            /\ pc' = "batch_loop"]_vars
    /\ [](pc \in {"batch_done", "batch_crashed", "batch_killed"} =>
            \/ interrupted # NoInterrupt
            \/ \A k \in DOMAIN batch_incentives :
                  outcome[batch_incentives[k]] # "none")

\* a finished run in which an incentive failed and a later incentive of the
\* batch was processed with success
C18_Witness ==
    /\ pc = "batch_done"
    /\ interrupted = NoInterrupt
    /\ failed = 1
    /\ \E j, k \in DOMAIN batch_incentives :
          /\ j < k
          /\ outcome[batch_incentives[j]] = "failure"
          /\ outcome[batch_incentives[k]] = "success"

\* C19: when a KeyboardInterrupt arrives during the processing of an
\* incentive, the driver catches it and stops only after that incentive has
\* completed or failed: the incentive is not left with one of its two result
\* writes made and the other missing.
C19_InterruptWaitsForInFlight ==
    interrupted # NoInterrupt =>
        /\ pc # "batch_killed"
        /\ outcome[interrupted.incentive] # "none"
        /\ incentives[interrupted.incentive].top_5_companies.written
              <=> incentives[interrupted.incentive].top_5_companies_scored.written

\* C20: at the end of process_batch every incentive that was processed,
\* with a success, with zero matches or with a failure, has a persisted
\* result in the table or an entry in the skip file.
C20_EveryOutcomeRecorded ==
    (driver = "with_scoring" /\ pc = "batch_done") =>
        \A i \in IncentiveIds :
            outcome[i] # "none" =>
                \/ incentives[i].top_5_companies_scored.written
                \/ i \in skipped_file

\* C21: when batch_process_with_scoring.py is started again, an incentive
\* that the previous run put on the skip file (its run returned no company)
\* is in the batch of the new run, after every incentive that is not on the
\* skip file, when --retry-skipped is given, and is not in the batch when it
\* is not given.
C21_SkippedRetriedOnlyWithFlag ==
    [][RunMainAgain =>
          \A i \in IncentiveIds :
              (outcome[i] = "zero" /\ i \in skipped_file) =>
                  IF include_skipped'
                  THEN /\ i \in Range(batch_incentives')
                       /\ \A j, k \in DOMAIN batch_incentives' :
                             (/\ batch_incentives'[j] \notin skipped_file
                              /\ batch_incentives'[k] \in skipped_file) => j < k
                  ELSE i \notin Range(batch_incentives')]_vars

\* the run of the current incentive ended at max_candidates with fewer than
\* 5 companies
Exhausted ==
    /\ Len(result.companies) < ThresholdCount
    /\ result.total_candidates_searched >= max_candidates

\* C22: when a run of process_batch returns, the incentive is on the skip
\* file afterwards if the run ended at max_candidates with fewer than 5
\* companies, and an incentive whose run found 5 companies is not added to
\* the skip file.
C22_SkipListMarksExhausted ==
    [][(driver = "with_scoring" /\ RunReturns) =>
          /\ Exhausted => Current \in skipped_file'
          /\ Len(result.companies) >= ThresholdCount =>
                (Current \in skipped_file' => Current \in skipped_file)]_vars

\* C28: at the end of process_batch no incentive whose latest outcome in
\* the batch was a success (a result with companies) is on the skip file.
C28_SuccessNotOnSkipList ==
    (driver = "with_scoring" /\ pc = "batch_done" /\ interrupted = NoInterrupt) =>
        \A i \in IncentiveIds : outcome[i] = "success" => i \notin skipped_file

\* the two result columns of row hold the rankings of one run for
\* incentive i
SameRun(i, row) ==
    /\ row.top_5_companies.written
    /\ row.top_5_companies_scored.written
    /\ \E shape \in ResultShapes :
          LET run == ResultOf(i, shape)
          IN  /\ row.top_5_companies =
                   MatchingJson(run.companies, run.total_candidates_searched, world)
              /\ row.top_5_companies_scored =
                   ScoredJson(run.scored_companies_sorted, world)

\* C29: whenever no run is in flight, also after a run that failed or was
\* interrupted between its two writes, the two stored rankings of every
\* incentive come from the same run, or both are still unwritten.
C29_RankingsPersistedTogether ==
    pc \in {"batch_loop", "batch_done", "batch_crashed", "batch_killed"} =>
        \A i \in IncentiveIds :
            \/ SameRun(i, incentives[i])
            \/ /\ ~incentives[i].top_5_companies.written
               /\ ~incentives[i].top_5_companies_scored.written

\* C24: for every max_candidates, when no external call fails and the vector
\* search returns candidates, the expansion loop is left only with a
\* finalized company set: final_companies is assigned when the scoring stage
\* starts, and the run does not end with an UnboundLocalError.
C24_LoopExitsFinalized ==
    ~RetrievalEmpty =>
        /\ pc = "score" => final_companies.bound
        /\ error # "UnboundLocalError"

\* C25: the eligible count of a persisted result is the number of candidates
\* marked eligible in the finalizing iteration, also when the final list was
\* cut to 5, and its candidates-searched count is the pool size of that
\* iteration.
C25_CountsOfFinalIteration ==
    pc = "done" =>
        /\ top_5_companies.geographic_eligible_count = Len(eligible_companies)
        /\ top_5_companies.total_candidates_searched = tried[Len(tried)]

\* the finalized companies the parsed scoring answer gives no score for
Omitted ==
    {c \in IdsOf(final_companies.list) : Str(c) \notin DOMAIN score_response.map}

\* C26: when the scoring answer parses into a numeric map that omits a
\* finalized company, the score-ordered list keeps the order of the
\* semantic-ordered list, in memory and as persisted.
C26_OmissionKeepsSemanticOrder ==
    (Scored /\ ~ScoringFailed(score_response) /\ Omitted # {}) =>
        /\ Ids(scored_companies_sorted) = Ids(final_companies.list)
        /\ pc = "done" =>
              Ids(top_5_companies_scored.companies) = Ids(top_5_companies.companies)

\* C27: analyze_eligibility returns true for a candidate only when the
\* parsed answer maps its identifier to the JSON boolean true.
C27_OnlyBooleanTrue ==
    Analyzed =>
        \A c \in Range(companies_with_locations) :
            eligibility_results[c.id] =>
                /\ HoldsObject(gpt_response)
                /\ Str(c.id) \in DOMAIN gpt_response.map
                /\ gpt_response.map[Str(c.id)] = "true"

\* C30: after build_reverse_index and save_reverse_index the stored entry of
\* every company is what the persisted score-ordered results give for it,
\* with no incentive left for a company that appears in no result, and a
\* second build on the same results would store nothing different.
C30_IndexEqualsDerivation ==
    pc = "index_saved" =>
        LET derived == BuildReverseIndex(FetchAllIncentivesWithScores(incentives))
        IN  /\ \A c \in IndexCompanies :
                  eligible_incentives[c].value =
                     IF c \in DOMAIN derived THEN derived[c] ELSE <<>>
            /\ SaveReverseIndex(eligible_incentives, derived) = eligible_incentives


\* a fraction that lies in [0, 1]
InUnit(r) == r.den > 0 /\ 0 <= r.num /\ r.num <= r.den

\* the rerank scores score_companies was given
SemanticScores == [i \in DOMAIN scorer_companies |-> scorer_companies[i].rerank_score]

\* C23: after score_companies every company's components are in range (S, M,
\* O and W in [0,1], G in {0, 0.5, 1}, orgDirection in {-1, 0, +1}), and S
\* is the min-max scaling of the semantic scores, 1.0 for every candidate
\* when the scores are all equal or there is only one candidate.
C23_ComponentsInRange ==
    pc = "score_output" =>
        /\ DOMAIN score_components = DOMAIN scorer_companies
        /\ \A i \in DOMAIN score_components :
             LET d  == score_components[i]
                 lo == CHOOSE m \in Range(SemanticScores) :
                          \A x \in Range(SemanticScores) : m <= x
                 hi == CHOOSE m \in Range(SemanticScores) :
                          \A x \in Range(SemanticScores) : m >= x
             IN  /\ InUnit(d.s) /\ InUnit(d.m)
                 /\ d.o \in 0..100
                 /\ d.w \in {0, 1}
                 /\ d.g \in {0, 50, 100}
                 /\ d.org_direction \in {-1, 0, 1}
                 /\ IF hi = lo
                    THEN d.s.num = d.s.den
                    ELSE d.s.num * (hi - lo) = (SemanticScores[i] - lo) * d.s.den

\* three companies were scored, one of them strictly between the lowest and
\* the highest semantic score, with a partial keyword overlap, an unknown
\* location and an incentive for small companies
C23_Witness ==
    /\ pc = "score_output"
    /\ Len(score_components) = 3
    /\ \E i \in DOMAIN score_components :
         LET d == score_components[i]
         IN  /\ 0 < d.s.num /\ d.s.num < d.s.den
             /\ 0 < d.m.num /\ d.m.num < d.m.den
             /\ d.g = 50
             /\ d.org_direction = -1
    /\ \E i \in DOMAIN score_components : score_components[i].s.num = 0

\* score_companies was given two companies with equal semantic scores
C23_WitnessEqual ==
    /\ pc = "score_output"
    /\ Len(score_components) = 2
    /\ SemanticScores[1] = SemanticScores[2]
    /\ score_components[1].s = Ratio(1, 1)

====
